---- MODULE Spec2Model ----
(***************************************************************************)
(* Model of bin/verify_articles.py: the one-shot script that cross-checks  *)
(* a seller's JSON article list against the rendered catalog index.htm.    *)
(*                                                                         *)
(* Strings that the code inspects character by character (file names,      *)
(* command-line arguments, URLs, the catalog text) are sequences of        *)
(* tokens; strings that are only copied and compared (ids, names, prices)  *)
(* are TLA+ strings.  A Python dict is a function from its keys.           *)
(***************************************************************************)
EXTENDS Integers, Sequences, FiniteSets, TLC

VARIABLES
    argv,               \* sys.argv, argv[1] being the program name
    cwd,                \* names of the entries of the working directory
    pc,                 \* position of main()
    seller_id,          \* [some, val]: None is some = FALSE
    index_path,
    json_data,          \* the value json.load returned
    json_articles,
    index_articles,
    json_article_ids,   \* insertion-ordered dict: sequence of [k, v]
    index_article_ids,
    missing_articles,
    extra_articles,
    url_issues,
    stdout,             \* lines printed so far
    exit_status,        \* Running until the process has ended
    fatal,              \* which error ended the run, "" for none
    url,                \* argument of a stand-alone verify_url_format call
    url_result          \* [called, valid, message] of that call

vars == << argv, cwd, pc, seller_id, index_path, json_data, json_articles,
           index_articles, json_article_ids, index_article_ids,
           missing_articles, extra_articles, url_issues, stdout,
           exit_status, fatal, url, url_result >>

(***************************************************************************)
(* Bounds of the model.                                                    *)
(***************************************************************************)
MaxJson == 2        \* records in the JSON file of the pipeline runs
MaxHtml == 2        \* product blocks in the catalog of the pipeline runs
MaxTail == 4        \* tokens after the site/path head of a checked URL
MaxElems == 2       \* itemListElement entries of one extracted object

Ids == {"1", "2", "3"}
Names == {"a", "b"}
Digits == {"1", "7", "8"}

Running == -1

\* Sequences over S of length at most n.
SeqsUpTo(S, n) == UNION {[1..k -> S] : k \in 0..n}

\* All orderings of a finite set.
Orderings(S) ==
    {s \in [1..Cardinality(S) -> S] : \A i, j \in DOMAIN s : i # j => s[i] # s[j]}

RECURSIVE Concat(_)
Concat(ss) == IF ss = <<>> THEN <<>> ELSE Head(ss) \o Concat(Tail(ss))

(***************************************************************************)
(* Python dict.get and membership.                                         *)
(***************************************************************************)
Has(d, k) == k \in DOMAIN d
Get(d, k, default) == IF k \in DOMAIN d THEN d[k] ELSE default
EmptyDict == [k \in {} |-> ""]

(***************************************************************************)
(* Output lines.                                                           *)
(***************************************************************************)
Line(tag, n, id, name, msg) == [tag |-> tag, n |-> n, id |-> id, name |-> name, msg |-> msg]
Msg(tag) == Line(tag, 0, "", "", "")
Count(tag, n) == Line(tag, n, "", "", "")
Item(tag, id, name) == Line(tag, 0, id, name, "")

ReportTags == {"results_header", "total_json", "total_index", "warn_missing",
               "missing_item", "all_present", "info_extra", "extra_item",
               "warn_url", "url_issue_item", "all_urls_ok",
               "verdict_successful", "verdict_failed"}

(***************************************************************************)
(* File names and the seller id (extract_seller_id_from_path).             *)
(***************************************************************************)
Dot == "."
JsonSuffix == <<Dot, "json">>

\* Path.stem: the name without its last suffix; a dot that starts or ends
\* the name begins no suffix.
Stem(name) ==
    LET dots == {i \in 2..(Len(name) - 1) : name[i] = Dot}
    IN  IF dots = {} THEN name
        ELSE SubSeq(name, 1, (CHOOSE i \in dots : \A j \in dots : j <= i) - 1)

\* Path(path).glob("*.json")
GlobJson(files) ==
    {f \in files : Len(f) >= 2 /\ SubSeq(f, Len(f) - 1, Len(f)) = JsonSuffix}

\* str.isdigit on a token string
IsDigit(s) == Len(s) > 0 /\ \A i \in 1..Len(s) : s[i] \in Digits

None == [some |-> FALSE, val |-> <<>>]
Some(v) == [some |-> TRUE, val |-> v]

\* A glob that forgets the suffix: every entry of the directory.
SellerIdCandidatesAnyExt(files) ==
    {Stem(f) : f \in {g \in files : IsDigit(Stem(g))}}

\* The values extract_seller_id_from_path can return for a directory holding
\* `files`: the stem of the first digit-named *.json entry in glob order,
\* which is the file system's order, so any of them; None when the set is
\* empty.
SellerIdCandidates(files) ==
    {Stem(f) : f \in {g \in GlobJson(files) : IsDigit(Stem(g))}}

\* f"{seller_id}.json"
JsonPath(sid) == sid \o JsonSuffix

(***************************************************************************)
(* extract_articles_from_json.                                             *)
(***************************************************************************)
ArticleOf(product) ==
    [id    |-> Get(product, "sku", ""),
     name  |-> Get(product, "name", ""),
     url   |-> Get(product, "url", <<>>),
     price |-> Get(Get(product, "offers", EmptyDict), "price", "")]

IsProductElement(list_item) ==
    /\ Has(list_item, "item")
    /\ Has(list_item["item"], "@type")
    /\ list_item["item"]["@type"] = "Product"

RECURSIVE ExtractElements(_)
ExtractElements(elems) ==
    IF elems = <<>> THEN <<>>
    ELSE (IF IsProductElement(Head(elems))
          THEN <<ArticleOf(Head(elems)["item"])>> ELSE <<>>)
         \o ExtractElements(Tail(elems))

\* A test that takes every top-level object carrying a type tag.
IsItemListAnyType(item) == Has(item, "@type")

IsItemList(item) == Has(item, "@type") /\ item["@type"] = "ItemList"

RECURSIVE ExtractItems(_)
ExtractItems(items) ==
    IF items = <<>> THEN <<>>
    ELSE (IF IsItemList(Head(items))
          THEN ExtractElements(Get(Head(items), "itemListElement", <<>>))
          ELSE <<>>)
         \o ExtractItems(Tail(items))

\* The loaded JSON value: an array of objects, or a number.
ArrayDoc(items) == [kind |-> "array", items |-> items]
NumberDoc == [kind |-> "number", items |-> <<>>]
NoDoc == [kind |-> "none", items |-> <<>>]

\* `for item in json_data` raises TypeError on a value that is not iterable.
ExtractRaises(data) == data.kind = "number"
ExtractArticlesFromJson(data) == ExtractItems(data.items)

(***************************************************************************)
(* parse_index_html.  The catalog text is a sequence of tokens [t, v]:     *)
(*   open   <div class="product-item"                                      *)
(*   close  </div>\s*</div>                                                *)
(*   id     ID: <digits>, v the digits                                     *)
(*   h3     <h3><a ...>text</a>, v the text                                *)
(*   text   anything else                                                  *)
(***************************************************************************)
Tok(t, v) == [t |-> t, v |-> v]

\* Position of the first token of kind t at or after from, 0 if none.
FirstAt(s, from, t) ==
    LET hits == {i \in from..Len(s) : s[i].t = t}
    IN  IF hits = {} THEN 0 ELSE CHOOSE i \in hits : \A j \in hits : i <= j

RECURSIVE FindProductItems(_, _)
\* re.findall(r'<div class="product-item".*?</div>\s*</div>', ..., re.DOTALL):
\* leftmost opening marker, shortest text up to a closing pair, then on
\* from the end of that match.
FindProductItems(s, from) ==
    LET i == FirstAt(s, from, "open") IN
    IF i = 0 THEN <<>>
    ELSE LET j == FirstAt(s, i + 1, "close") IN
         IF j = 0 THEN <<>>
         ELSE <<SubSeq(s, i, j)>> \o FindProductItems(s, j + 1)

\* The record of one product item: both re.search calls must match.
ItemArticle(item) ==
    LET id_match   == FirstAt(item, 1, "id")
        name_match == FirstAt(item, 1, "h3")
    IN  IF id_match # 0 /\ name_match # 0
        THEN <<[id |-> item[id_match].v, name |-> item[name_match].v]>>
        ELSE <<>>

RECURSIVE ItemArticles(_)
ItemArticles(items) ==
    IF items = <<>> THEN <<>>
    ELSE ItemArticle(Head(items)) \o ItemArticles(Tail(items))

ParseIndexHtml(content) == ItemArticles(FindProductItems(content, 1))

\* The debug lines parse_index_html prints.
ParseDebugLines(content) ==
    LET found == ParseIndexHtml(content) IN
    <<Count("debug_found_items", Len(FindProductItems(content, 1)))>>
    \o [i \in 1..Len(found) |-> Item("debug_article", found[i].id, found[i].name)]

(***************************************************************************)
(* verify_url_format.  A URL is a sequence of tokens: a scheme with its    *)
(* "//", a host, a path prefix, and the single characters of the rest.     *)
(***************************************************************************)
Https == "https://"
Http == "http://"
Site == "www.willhaben.at"
OtherSite == "www.example.com"
ArticlePath == "/iad/kaufen-und-verkaufen/d/"
OtherPath == "/other/d/"
Slash == "/"
Dash == "-"
Letter == "x"
Digit == "1"

SchemeTokens == {Https, Http}
PathTokens == {ArticlePath, OtherPath, Slash}

\* urlparse(url).scheme: the text before "://" at the head of the URL.
UrlScheme(u) == IF Len(u) >= 1 /\ u[1] \in SchemeTokens THEN u[1] ELSE ""

\* urlparse(url).netloc: after the scheme's "//", the text up to the next "/".
UrlNetloc(u) ==
    IF UrlScheme(u) = "" THEN <<>>
    ELSE LET stops == {i \in 2..Len(u) : u[i] \in PathTokens}
             stop  == IF stops = {} THEN Len(u) + 1
                      ELSE CHOOSE i \in stops : \A j \in stops : i <= j
         IN  SubSeq(u, 2, stop - 1)

PatternHead == <<Https, Site, ArticlePath>>

\* A "-" at position i followed by at least one digit.
DashDigitAt(u, i) == i + 1 <= Len(u) /\ u[i] = Dash /\ u[i + 1] = Digit

\* re.match(r'https://www\.willhaben\.at/iad/kaufen-und-verkaufen/d/.*?-\d+/?', url):
\* the pattern is matched at the start of the URL and nothing anchors its end.
MatchesPattern(u) ==
    /\ Len(u) >= Len(PatternHead)
    /\ SubSeq(u, 1, Len(PatternHead)) = PatternHead
    /\ \E i \in (Len(PatternHead) + 1)..Len(u) : DashDigitAt(u, i)

VerifyUrlFormat(u) ==
    IF UrlScheme(u) = "" \/ UrlNetloc(u) = <<>>
    THEN [valid |-> FALSE, message |-> "URL missing scheme or domain"]
    ELSE IF ~MatchesPattern(u)
    THEN [valid |-> FALSE, message |-> "URL does not match expected willhaben article pattern"]
    ELSE [valid |-> TRUE, message |-> "Valid URL format"]

(***************************************************************************)
(* The comparison of main().  A dict keeps its keys in the order of their  *)
(* first insertion: it is a sequence of entries [k, v].                    *)
(***************************************************************************)
DictKeys(d) == {d[i].k : i \in 1..Len(d)}
DictGet(d, key) == d[CHOOSE i \in 1..Len(d) : d[i].k = key].v

\* An insertion that leaves the value of a key already present.
DictPutKeepFirst(d, key, val) ==
    IF key \in DictKeys(d) THEN d ELSE Append(d, [k |-> key, v |-> val])

\* d[key] = val
DictPut(d, key, val) ==
    IF key \in DictKeys(d)
    THEN [i \in 1..Len(d) |-> IF d[i].k = key THEN [k |-> key, v |-> val] ELSE d[i]]
    ELSE Append(d, [k |-> key, v |-> val])

RECURSIVE DictInto(_, _)
DictInto(d, articles) ==
    IF articles = <<>> THEN d
    ELSE DictInto(DictPut(d, Head(articles).id, Head(articles)), Tail(articles))

\* {article['id']: article for article in articles}
ArticlesById(articles) == DictInto(<<>>, articles)

RECURSIVE ValuesNotIn(_, _)
\* The values of d, in d's order, whose key is not one of keys.
ValuesNotIn(d, keys) ==
    IF d = <<>> THEN <<>>
    ELSE (IF Head(d).k \notin keys THEN <<Head(d).v>> ELSE <<>>)
         \o ValuesNotIn(Tail(d), keys)

\* A difference that also keeps the entries the other source has.
MissingArticlesAll(json_ids, index_ids) == ValuesNotIn(json_ids, {})

MissingArticles(json_ids, index_ids) == ValuesNotIn(json_ids, DictKeys(index_ids))

ExtraArticles(json_ids, index_ids) == ValuesNotIn(index_ids, DictKeys(json_ids))

\* A URL check over every JSON id instead of the common ones.
UrlCheckedIdsAllJson(json_ids, index_ids) == DictKeys(json_ids)

\* set(json_article_ids.keys()) & set(index_article_ids.keys())
UrlCheckedIds(json_ids, index_ids) == DictKeys(json_ids) \cap DictKeys(index_ids)

RECURSIVE UrlIssues(_, _)
\* The issues found walking the checked ids in the order `order`.
UrlIssues(order, json_ids) ==
    IF order = <<>> THEN <<>>
    ELSE LET json_article == DictGet(json_ids, Head(order))
             res == VerifyUrlFormat(json_article.url)
         IN  (IF ~res.valid
              THEN <<[id |-> Head(order), name |-> json_article.name, issue |-> res.message]>>
              ELSE <<>>)
             \o UrlIssues(Tail(order), json_ids)

(***************************************************************************)
(* The report of main().                                                   *)
(***************************************************************************)
\* A verdict that also fails on catalog entries the JSON file lacks.
VerdictStrict(missing, extra, issues) ==
    IF missing = <<>> /\ issues = <<>> /\ extra = <<>>
    THEN "verdict_successful" ELSE "verdict_failed"

Verdict(missing, extra, issues) ==
    IF missing = <<>> /\ issues = <<>> THEN "verdict_successful" ELSE "verdict_failed"

ReportLines(n_json, n_index, missing, extra, issues) ==
    <<Msg("results_header"), Count("total_json", n_json), Count("total_index", n_index)>>
    \o (IF missing # <<>>
        THEN <<Count("warn_missing", Len(missing))>>
             \o [i \in 1..Len(missing) |-> Item("missing_item", missing[i].id, missing[i].name)]
        ELSE <<Msg("all_present")>>)
    \o (IF extra # <<>>
        THEN <<Count("info_extra", Len(extra))>>
             \o [i \in 1..Len(extra) |-> Item("extra_item", extra[i].id, extra[i].name)]
        ELSE <<>>)
    \o (IF issues # <<>>
        THEN <<Count("warn_url", Len(issues))>>
             \o [i \in 1..Len(issues) |->
                    Line("url_issue_item", 0, issues[i].id, issues[i].name, issues[i].issue)]
        ELSE <<Msg("all_urls_ok")>>)
    \o <<Msg(Verdict(missing, extra, issues))>>

\* An exit status that follows the verdict.
ExitAfterReportByVerdict ==
    IF missing_articles = <<>> /\ url_issues = <<>> THEN 0 ELSE 1

\* main() returns and the interpreter ends with status 0.
ExitAfterReport == 0

\* sys.exit(1), and the status of an uncaught exception.
ExitFailure == 1

(***************************************************************************)
(* The steps of main().                                                    *)
(***************************************************************************)
IndexDefault == <<"index", Dot, "htm">>
Unparsable == [kind |-> "unparsable", items |-> <<>>]
NoResult == [called |-> FALSE, valid |-> FALSE, message |-> ""]

\* print(message); sys.exit(1)
Fatal(tag) ==
    /\ pc' = "exit"
    /\ fatal' = tag
    /\ stdout' = Append(stdout, Msg(tag))
    /\ exit_status' = ExitFailure

\* An exception nothing catches: the traceback goes to stderr.
Uncaught ==
    /\ pc' = "exit"
    /\ fatal' = "uncaught"
    /\ stdout' = stdout
    /\ exit_status' = ExitFailure

\* Lines 106-122: the arguments and the seller id.
ResolveArgs ==
    /\ pc = "start"
    /\ index_path' = IF Len(argv) > 2 THEN argv[3] ELSE IndexDefault
    /\ IF Len(argv) > 1
       THEN /\ seller_id' = Some(argv[2])
            /\ pc' = "resolved"
            /\ stdout' = stdout \o <<Msg("verifying"), Msg("using_index")>>
            /\ UNCHANGED << fatal, exit_status >>
       ELSE IF SellerIdCandidates(cwd) = {}
       THEN /\ seller_id' = None
            /\ Fatal("error_seller_id")
       ELSE /\ \E sid \in SellerIdCandidates(cwd) : seller_id' = Some(sid)
            /\ pc' = "resolved"
            /\ stdout' = stdout \o <<Msg("verifying"), Msg("using_index")>>
            /\ UNCHANGED << fatal, exit_status >>
    /\ UNCHANGED << argv, cwd, json_data, json_articles, index_articles,
                    json_article_ids, index_article_ids, missing_articles,
                    extra_articles, url_issues, url, url_result >>

\* Line 125, load_seller_json: the file holds one of Contents.
LoadSellerJson(Contents) ==
    /\ pc = "resolved"
    /\ IF JsonPath(seller_id.val) \notin cwd
       THEN Fatal("error_json_missing") /\ UNCHANGED json_data
       ELSE \E content \in Contents \cup {Unparsable} :
               IF content = Unparsable
               THEN Fatal("error_json_parse") /\ UNCHANGED json_data
               ELSE /\ json_data' = content
                    /\ pc' = "loaded"
                    /\ UNCHANGED << fatal, exit_status, stdout >>
    /\ UNCHANGED << argv, cwd, seller_id, index_path, json_articles, index_articles,
                    json_article_ids, index_article_ids, missing_articles,
                    extra_articles, url_issues, url, url_result >>

\* Line 126, extract_articles_from_json.
ExtractJson ==
    /\ pc = "loaded"
    /\ IF ExtractRaises(json_data)
       THEN Uncaught /\ UNCHANGED json_articles
       ELSE /\ json_articles' = ExtractArticlesFromJson(json_data)
            /\ pc' = "extracted"
            /\ UNCHANGED << fatal, exit_status, stdout >>
    /\ UNCHANGED << argv, cwd, seller_id, index_path, json_data, index_articles,
                    json_article_ids, index_article_ids, missing_articles,
                    extra_articles, url_issues, url, url_result >>

\* A parse that treats a missing catalog as an empty one.
IndexMissingIgnored(path, files) == FALSE

\* open(index_path) raises FileNotFoundError.
IndexMissing(path, files) == path \notin files

\* Line 127, parse_index_html: the catalog holds one of Catalogs.
ParseIndex(Catalogs) ==
    /\ pc = "extracted"
    /\ IF IndexMissing(index_path, cwd)
       THEN Fatal("error_index_missing") /\ UNCHANGED index_articles
       ELSE \E content \in Catalogs :
               /\ index_articles' = ParseIndexHtml(content)
               /\ stdout' = stdout \o ParseDebugLines(content)
               /\ pc' = "parsed"
               /\ UNCHANGED << fatal, exit_status >>
    /\ UNCHANGED << argv, cwd, seller_id, index_path, json_data, json_articles,
                    json_article_ids, index_article_ids, missing_articles,
                    extra_articles, url_issues, url, url_result >>

\* Lines 129-155: the two mappings and the three result lists.  The URL
\* loop walks a set, whose order Python leaves open.
Compare ==
    /\ pc = "parsed"
    /\ LET json_ids  == ArticlesById(json_articles)
           index_ids == ArticlesById(index_articles)
       IN  /\ json_article_ids' = json_ids
           /\ index_article_ids' = index_ids
           /\ missing_articles' = MissingArticles(json_ids, index_ids)
           /\ extra_articles' = ExtraArticles(json_ids, index_ids)
           /\ \E order \in Orderings(UrlCheckedIds(json_ids, index_ids)) :
                 url_issues' = UrlIssues(order, json_ids)
    /\ pc' = "compared"
    /\ UNCHANGED << argv, cwd, seller_id, index_path, json_data, json_articles,
                    index_articles, stdout, exit_status, fatal, url, url_result >>

\* Lines 157-187: the report, then the end of the process.
Report ==
    /\ pc = "compared"
    /\ stdout' = stdout \o ReportLines(Len(json_articles), Len(index_articles),
                                       missing_articles, extra_articles, url_issues)
    /\ exit_status' = ExitAfterReport
    /\ pc' = "done"
    /\ UNCHANGED << argv, cwd, seller_id, index_path, json_data, json_articles,
                    index_articles, json_article_ids, index_article_ids,
                    missing_articles, extra_articles, url_issues, fatal, url,
                    url_result >>

\* A call of verify_url_format on its own.
VerifyUrl ==
    /\ pc = "url"
    /\ url_result' = [called |-> TRUE,
                      valid |-> VerifyUrlFormat(url).valid,
                      message |-> VerifyUrlFormat(url).message]
    /\ pc' = "url_done"
    /\ UNCHANGED << argv, cwd, seller_id, index_path, json_data, json_articles,
                    index_articles, json_article_ids, index_article_ids,
                    missing_articles, extra_articles, url_issues, stdout,
                    exit_status, fatal, url >>

(***************************************************************************)
(* Inputs.                                                                 *)
(***************************************************************************)
Prog == <<"verify_articles.py">>
Seller7 == <<"7">>
File7Json == <<"7", Dot, "json">>
File8Json == <<"8", Dot, "json">>
File8Txt == <<"8", Dot, "txt">>
File1 == <<"1">>
FileNotesJson == <<"notes", Dot, "json">>
File7BakJson == <<"7", Dot, "bak", Dot, "json">>
CatalogArg == <<"cat", Dot, "htm">>

GoodUrl == <<Https, Site, ArticlePath, Letter, Dash, Digit, Slash>>
BadUrl == <<Http, Site, ArticlePath, Letter, Dash, Digit, Slash>>
MainUrls == {GoodUrl, BadUrl}

\* The JSON document that lists `articles` as the products of one ItemList.
ProductOf(a) ==
    ("@type" :> "Product") @@ ("sku" :> a.id) @@ ("name" :> a.name) @@ ("url" :> a.url)
ItemListOf(articles) ==
    ("@type" :> "ItemList")
    @@ ("itemListElement" :> [i \in 1..Len(articles) |-> ("item" :> ProductOf(articles[i]))])
DocOf(articles) == ArrayDoc(<<ItemListOf(articles)>>)

\* The catalog text of one product item.
Open == Tok("open", "")
Close == Tok("close", "")
Block(id, name) == <<Open, Tok("id", id), Tok("h3", name), Close>>
BlockNoId(name) == <<Open, Tok("h3", name), Close>>

MainDocs ==
    {DocOf(as) : as \in SeqsUpTo([id : Ids, name : Names, url : MainUrls], MaxJson)}
    \cup {NumberDoc}
MainPieces == {Block(id, "c") : id \in Ids} \cup {BlockNoId("c")}
MainCatalogs == {Concat(ps) : ps \in SeqsUpTo(MainPieces, MaxHtml)}

InitRun(args, files) ==
    /\ argv \in args
    /\ cwd \in files
    /\ pc = "start"
    /\ seller_id = None
    /\ index_path = <<>>
    /\ json_data = NoDoc
    /\ json_articles = <<>>
    /\ index_articles = <<>>
    /\ json_article_ids = <<>>
    /\ index_article_ids = <<>>
    /\ missing_articles = <<>>
    /\ extra_articles = <<>>
    /\ url_issues = <<>>
    /\ stdout = <<>>
    /\ exit_status = Running
    /\ fatal = ""
    /\ url = <<>>
    /\ url_result = NoResult

(***************************************************************************)
(* Spec: whole runs of the script.                                         *)
(***************************************************************************)
Init ==
    InitRun({<<Prog>>, <<Prog, Seller7>>, <<Prog, Seller7, CatalogArg>>},
            SUBSET {File7Json, IndexDefault})

Next ==
    \/ ResolveArgs
    \/ LoadSellerJson(MainDocs)
    \/ ExtractJson
    \/ ParseIndex(MainCatalogs)
    \/ Compare
    \/ Report

Spec == Init /\ [][Next]_vars

(***************************************************************************)
(* SpecE2E: whole runs on three JSON records and three catalog blocks.     *)
(***************************************************************************)
E2EDocs ==
    {DocOf(as) : as \in [1..3 -> [id : {"1", "2", "3"}, name : {"a"}, url : MainUrls]]}
E2EPieces == {Block(id, "c") : id \in {"2", "3", "4"}} \cup {BlockNoId("c")}
E2ECatalogs == {Concat(ps) : ps \in [1..3 -> E2EPieces]}

InitE2E ==
    InitRun({<<Prog>>, <<Prog, Seller7>>}, {{File7Json, IndexDefault}, {File7Json}, {}})

NextE2E ==
    \/ ResolveArgs
    \/ LoadSellerJson(E2EDocs)
    \/ ExtractJson
    \/ ParseIndex(E2ECatalogs)
    \/ Compare
    \/ Report

SpecE2E == InitE2E /\ [][NextE2E]_vars

(***************************************************************************)
(* SpecResolve: the resolution of the seller id over many directories.     *)
(***************************************************************************)
ResolveFiles ==
    {File7Json, File8Json, File8Txt, File1, FileNotesJson, File7BakJson, IndexDefault}

InitResolve ==
    InitRun({<<Prog>>, <<Prog, Seller7>>, <<Prog, <<"notes">>>>, <<Prog, <<>>>>,
             <<Prog, Seller7, CatalogArg>>},
            SUBSET ResolveFiles)

NextResolve == ResolveArgs

SpecResolve == InitResolve /\ [][NextResolve]_vars

(***************************************************************************)
(* SpecUrl: verify_url_format on URLs made of a head (scheme, host, path   *)
(* prefix, each possibly absent) and a tail of single characters.          *)
(***************************************************************************)
Opt(S) == {<<>>} \cup {<<x>> : x \in S}
UrlHeads ==
    {sch \o host \o path : sch \in Opt(SchemeTokens), host \in Opt({Site, OtherSite}),
                           path \in Opt({ArticlePath, OtherPath})}
UrlTails == SeqsUpTo({Letter, Dash, Digit, Slash}, MaxTail)
UrlInputs == {h \o t : h \in UrlHeads, t \in UrlTails}

InitUrl ==
    /\ url \in UrlInputs
    /\ pc = "url"
    /\ argv = <<Prog>>
    /\ cwd = {}
    /\ seller_id = None
    /\ index_path = <<>>
    /\ json_data = NoDoc
    /\ json_articles = <<>>
    /\ index_articles = <<>>
    /\ json_article_ids = <<>>
    /\ index_article_ids = <<>>
    /\ missing_articles = <<>>
    /\ extra_articles = <<>>
    /\ url_issues = <<>>
    /\ stdout = <<>>
    /\ exit_status = Running
    /\ fatal = ""
    /\ url_result = NoResult

NextUrl == VerifyUrl

SpecUrl == InitUrl /\ [][NextUrl]_vars

(***************************************************************************)
(* SpecExtract: extract_articles_from_json on documents of many shapes.    *)
(***************************************************************************)
ProductFull ==
    ("@type" :> "Product") @@ ("sku" :> "1") @@ ("name" :> "a") @@ ("url" :> GoodUrl)
    @@ ("offers" :> ("price" :> "9"))
ProductBare == ("@type" :> "Product")
ProductNoPrice == ("@type" :> "Product") @@ ("sku" :> "1") @@ ("offers" :> EmptyDict)
ItemOffer == ("@type" :> "Offer") @@ ("sku" :> "2") @@ ("name" :> "b")
ItemUntyped == ("sku" :> "3") @@ ("name" :> "a")

ExtractElementSet ==
    {("item" :> it) : it \in {ProductFull, ProductBare, ProductNoPrice, ItemOffer, ItemUntyped}}
    \cup {("position" :> "1")}

TopObject(type, elems) ==
    (IF type = "" THEN EmptyDict ELSE ("@type" :> type))
    @@ (IF elems.some THEN ("itemListElement" :> elems.val) ELSE EmptyDict)

ExtractTopObjects ==
    {TopObject(type, elems) :
        type \in {"ItemList", "WebPage", ""},
        elems \in {None} \cup {Some(es) : es \in SeqsUpTo(ExtractElementSet, MaxElems)}}

ExtractSecondObjects ==
    {TopObject("ItemList", Some(<<("item" :> ProductNoPrice)>>)),
     TopObject("ItemList", Some(<<("item" :> ItemOffer), ("item" :> ProductFull)>>)),
     TopObject("WebPage", Some(<<("item" :> ProductFull)>>))}

ExtractDocs ==
    {ArrayDoc(<<>>)}
    \cup {ArrayDoc(<<t>>) : t \in ExtractTopObjects}
    \cup {ArrayDoc(<<t, u>>) : t \in ExtractTopObjects, u \in ExtractSecondObjects}

InitExtract ==
    /\ json_data \in ExtractDocs
    /\ pc = "loaded"
    /\ argv = <<Prog, Seller7>>
    /\ cwd = {File7Json}
    /\ seller_id = Some(Seller7)
    /\ index_path = IndexDefault
    /\ json_articles = <<>>
    /\ index_articles = <<>>
    /\ json_article_ids = <<>>
    /\ index_article_ids = <<>>
    /\ missing_articles = <<>>
    /\ extra_articles = <<>>
    /\ url_issues = <<>>
    /\ stdout = <<Msg("verifying"), Msg("using_index")>>
    /\ exit_status = Running
    /\ fatal = ""
    /\ url = <<>>
    /\ url_result = NoResult

NextExtract == ExtractJson

SpecExtract == InitExtract /\ [][NextExtract]_vars

(***************************************************************************)
(* Properties.                                                             *)
(***************************************************************************)
IdsOf(records) == {records[i].id : i \in 1..Len(records)}
Printed(tag) == \E i \in 1..Len(stdout) : stdout[i].tag = tag
ReportPrinted == \E i \in 1..Len(stdout) : stdout[i].tag \in ReportTags
LastLine == stdout[Len(stdout)]
Compared == pc \in {"compared", "done"}
\* The last record of `records`, in input order, that carries `id`.
LastWith(records, id) ==
    records[CHOOSE i \in 1..Len(records) :
                /\ records[i].id = id
                /\ \A j \in 1..Len(records) : records[j].id = id => j <= i]
OnePerId(records) ==
    \A i, j \in 1..Len(records) : records[i].id = records[j].id => i = j
Malformed(u) == ~VerifyUrlFormat(u).valid

\* C1: once the comparison is made, the ids of missing are exactly the JSON
\* ids that are no catalog ids, the ids of extra exactly the catalog ids
\* that are no JSON ids; missing, extra and the common ids are pairwise
\* disjoint; equal id sets leave both lists empty.
C1_SetDifferences ==
    Compared =>
        LET A == IdsOf(json_articles)
            B == IdsOf(index_articles)
            M == IdsOf(missing_articles)
            E == IdsOf(extra_articles)
        IN  /\ M = A \ B
            /\ E = B \ A
            /\ M \cap E = {}
            /\ M \cap (A \cap B) = {}
            /\ E \cap (A \cap B) = {}
            /\ (A = B => missing_articles = <<>> /\ extra_articles = <<>>)

C1_Witness ==
    /\ pc = "compared"
    /\ missing_articles # <<>>
    /\ extra_articles # <<>>
    /\ IdsOf(json_articles) \cap IdsOf(index_articles) # {}

\* C2: whenever the report is printed its last line is the verdict, which
\* is "successful" exactly when missing and url-issues are both empty and
\* "failed" otherwise, whatever the extra list holds.
C2_Verdict ==
    ReportPrinted =>
        /\ LastLine.tag \in {"verdict_successful", "verdict_failed"}
        /\ LastLine.tag = "verdict_successful"
              <=> (missing_articles = <<>> /\ url_issues = <<>>)

C2_Witness ==
    /\ ReportPrinted
    /\ extra_articles # <<>>
    /\ missing_articles = <<>>
    /\ url_issues = <<>>
    /\ json_articles # <<>>
    /\ LastLine.tag = "verdict_successful"

\* The end-to-end scenario: JSON ids {1,2,3}, catalog ids {2,3,4}, the URL
\* of id 1 malformed and those of ids 2 and 3 well-formed, the run finished.
E2EScenario ==
    /\ pc = "done"
    /\ IdsOf(json_articles) = {"1", "2", "3"}
    /\ IdsOf(index_articles) = {"2", "3", "4"}
    /\ \A i \in 1..Len(json_articles) :
          Malformed(json_articles[i].url) <=> json_articles[i].id = "1"

\* C3 as stated: the scenario reports missing=[1], extra=[4],
\* url-issues=[1] and the verdict "failed".
C3_AsStated ==
    E2EScenario =>
        /\ IdsOf(missing_articles) = {"1"} /\ Len(missing_articles) = 1
        /\ IdsOf(extra_articles) = {"4"} /\ Len(extra_articles) = 1
        /\ IdsOf(url_issues) = {"1"} /\ Len(url_issues) = 1
        /\ LastLine.tag = "verdict_failed"

\* C3 amended: the scenario reports missing=[1], extra=[4], an empty
\* url-issues list (id 1 is in no catalog block, so its URL is not checked)
\* and the verdict "failed".
C3_Scenario ==
    E2EScenario =>
        /\ IdsOf(missing_articles) = {"1"} /\ Len(missing_articles) = 1
        /\ IdsOf(extra_articles) = {"4"} /\ Len(extra_articles) = 1
        /\ url_issues = <<>>
        /\ Printed("all_urls_ok")
        /\ LastLine.tag = "verdict_failed"

C3_Witness == E2EScenario /\ Printed("warn_missing") /\ Printed("info_extra")

\* The full article shape: the fixed head, anything, "-", digits, an
\* optional trailing slash, and nothing after it.
FullShape(u) ==
    /\ Len(u) >= Len(PatternHead)
    /\ SubSeq(u, 1, Len(PatternHead)) = PatternHead
    /\ \E i \in (Len(PatternHead) + 1)..Len(u) : \E k \in (i + 1)..Len(u) :
          /\ u[i] = Dash
          /\ \A d \in (i + 1)..k : u[d] = Digit
          /\ \/ k = Len(u)
             \/ k + 1 = Len(u) /\ u[k + 1] = Slash

\* C4: verify_url_format reports a URL valid if and only if it has a scheme
\* and a host and the whole URL has the article shape with nothing after the
\* digits but an optional slash; every other URL is invalid with a reason.
C4_ValidIffFullShape ==
    url_result.called =>
        /\ url_result.valid
              <=> (UrlScheme(url) # "" /\ UrlNetloc(url) # <<>> /\ FullShape(url))
        /\ ~url_result.valid => url_result.message # ""

FourFatal ==
    {"error_seller_id", "error_json_missing", "error_json_parse", "error_index_missing"}

\* C5 as stated: a run that reaches the report ends with status 0 whatever
\* the verdict, and a non-zero status occurs only on one of the four fatal
\* input errors.
C5_AsStated ==
    /\ ReportPrinted /\ exit_status # Running => exit_status = 0
    /\ exit_status \notin {Running, 0} => fatal \in FourFatal

\* C5 amended: a run that reaches the report ends with status 0 whatever
\* the verdict; a non-zero status occurs only in a run that ended before the
\* report, on one of the four fatal input errors or on an exception nothing
\* catches.
C5_ExitStatus ==
    /\ pc = "done" <=> (ReportPrinted /\ exit_status # Running)
    /\ ReportPrinted /\ exit_status # Running => exit_status = 0 /\ fatal = ""
    /\ exit_status \notin {Running, 0} =>
          /\ fatal \in FourFatal \cup {"uncaught"}
          /\ ~ReportPrinted

C5_Witness ==
    /\ pc = "done"
    /\ LastLine.tag = "verdict_failed"
    /\ exit_status = 0

\* C6: each of the four fatal conditions prints its message and ends the
\* run at once: the message is the last line, no step follows, nothing was
\* compared and no line of the report is printed; the comparison is reached
\* only with the seller id resolved, the JSON file present and parsed and
\* the catalog file present.
C6_FatalEndsRun ==
    /\ fatal \in FourFatal =>
          /\ pc = "exit" /\ exit_status # Running /\ exit_status # 0
          /\ LastLine = Msg(fatal)
          /\ \A i \in 1..(Len(stdout) - 1) : stdout[i].tag \notin FourFatal
          /\ ~ReportPrinted
          /\ json_article_ids = <<>> /\ index_article_ids = <<>>
          /\ missing_articles = <<>> /\ extra_articles = <<>> /\ url_issues = <<>>
          /\ ~ENABLED Next
    /\ pc \in {"parsed", "compared", "done"} =>
          /\ seller_id.some
          /\ JsonPath(seller_id.val) \in cwd
          /\ json_data.kind = "array"
          /\ index_path \in cwd
    /\ pc = "exit" /\ seller_id.some /\ json_data.kind = "array" /\ index_path \notin cwd
          => fatal = "error_index_missing"

C6_Witness ==
    /\ fatal = "error_index_missing"
    /\ json_data.kind = "array"
    /\ json_articles # <<>>

EndsInJson(f) == Len(f) >= 2 /\ f[Len(f) - 1] = Dot /\ f[Len(f)] = "json"
DigitStems(files) == {Stem(f) : f \in {g \in files : IsDigit(Stem(g))}}

C8_UrlIssues ==
    Compared =>
        LET both == DictKeys(json_article_ids) \cap DictKeys(index_article_ids) IN
        /\ IdsOf(url_issues)
              = {id \in both : Malformed(DictGet(json_article_ids, id).url)}
        /\ OnePerId(url_issues)
        /\ \A id \in IdsOf(url_issues) :
              id \in IdsOf(json_articles) /\ id \in IdsOf(index_articles)

C8_Witness ==
    /\ pc = "compared"
    /\ url_issues # <<>>
    /\ \E i \in 1..Len(json_articles) :
          /\ Malformed(json_articles[i].url)
          /\ json_articles[i].id \notin IdsOf(index_articles)

\* C9: each mapping holds, for every id, the last record of its source with
\* that id; missing, extra and url-issues have at most one entry per id; a
\* missing entry is the last JSON record of its id, and a common id is in
\* url-issues, under the name of its last JSON record, exactly when the URL
\* of that last record is malformed.
C9_LastWins ==
    Compared =>
        /\ DictKeys(json_article_ids) = IdsOf(json_articles)
        /\ DictKeys(index_article_ids) = IdsOf(index_articles)
        /\ \A id \in IdsOf(json_articles) :
              DictGet(json_article_ids, id) = LastWith(json_articles, id)
        /\ \A id \in IdsOf(index_articles) :
              DictGet(index_article_ids, id) = LastWith(index_articles, id)
        /\ OnePerId(missing_articles) /\ OnePerId(extra_articles) /\ OnePerId(url_issues)
        /\ \A i \in 1..Len(missing_articles) :
              missing_articles[i] = LastWith(json_articles, missing_articles[i].id)
        /\ \A i \in 1..Len(url_issues) :
              url_issues[i].name = LastWith(json_articles, url_issues[i].id).name
        /\ \A id \in IdsOf(json_articles) \cap IdsOf(index_articles) :
              id \in IdsOf(url_issues) <=> Malformed(LastWith(json_articles, id).url)

C9_Witness ==
    /\ pc = "compared"
    /\ Len(json_articles) = 2
    /\ json_articles[1].id = json_articles[2].id
    /\ json_articles[1].name # json_articles[2].name
    /\ Malformed(json_articles[1].url)
    /\ ~Malformed(json_articles[2].url)
    /\ json_articles[1].id \in IdsOf(index_articles)
    /\ url_issues = <<>>

\* The places <<i, j>> of the document whose element j of top-level object
\* i counts: the object is an ItemList and the element's item a Product.
Counted(items) ==
    UNION {
        {<<i, j>> : j \in
            {k \in 1..Len(items[i]["itemListElement"]) :
                LET e == items[i]["itemListElement"][k] IN
                /\ "item" \in DOMAIN e
                /\ "@type" \in DOMAIN e["item"]
                /\ e["item"]["@type"] = "Product"}} :
        i \in {t \in 1..Len(items) :
                  /\ "@type" \in DOMAIN items[t]
                  /\ items[t]["@type"] = "ItemList"
                  /\ "itemListElement" \in DOMAIN items[t]}}
Before(p, q) == p[1] < q[1] \/ (p[1] = q[1] /\ p[2] <= q[2])
Field(d, k) == IF k \in DOMAIN d THEN d[k] ELSE ""

\* C10: extract_articles_from_json returns one record per counted place,
\* in input order and keeping duplicates; every other object or element
\* adds nothing and raises nothing; an absent sku, name, url or
\* offers.price gives the empty string.
C10_Extraction ==
    pc # "loaded" /\ json_data.kind = "array" =>
        LET items == json_data.items
            places == Counted(items)
        IN  /\ pc = "extracted" /\ fatal = "" /\ exit_status = Running
            /\ Len(json_articles) = Cardinality(places)
            /\ \A p \in places :
                  LET n == Cardinality({q \in places : Before(q, p)})
                      item == items[p[1]]["itemListElement"][p[2]]["item"]
                  IN  /\ json_articles[n].id = Field(item, "sku")
                      /\ json_articles[n].name = Field(item, "name")
                      /\ json_articles[n].url
                            = IF "url" \in DOMAIN item THEN item["url"] ELSE <<>>
                      /\ json_articles[n].price
                            = IF "offers" \in DOMAIN item
                              THEN Field(item["offers"], "price") ELSE ""

C10_Witness ==
    /\ pc = "extracted"
    /\ Len(json_data.items) = 2
    /\ Len(json_articles) = 2
    /\ json_articles[1].id = json_articles[2].id
    /\ json_articles[1].price = "" /\ json_articles[2].price = "9"
    /\ "@type" \in DOMAIN json_data.items[2]
    /\ json_data.items[2]["@type"] = "WebPage"
    /\ Get(json_data.items[2], "itemListElement", <<>>) # <<>>

====
